---------------------------- MODULE Spec2Model ----------------------------
(***************************************************************************)
(* Episode processing and digest queue of marketrecap: the registry rows   *)
(* (episodes, subscriptions, daily_digest_queue), the Celery broker, the   *)
(* two Celery workers stepping through process_episode_task,               *)
(* poll_source_task and send_user_digest_task, the FastAPI handlers        *)
(* submit_url, reprocess_episode and subscribe_to_source, and the bot's    *)
(* handle_url.  Every committed write is one step; what a                  *)
(* session has loaded is kept in the executing worker's or request's       *)
(* record, so reads and commits of different executions interleave.        *)
(***************************************************************************)
EXTENDS Integers, Sequences, FiniteSets, TLC

\* ---------------------------------------------------------------- bounds
NumUsers == 2
NumApi == 2
MaxJobs == 1
MaxDup == 2
MaxPolls == 2

\* ------------------------------------------------------ program constants
max_retries == 3
worker_concurrency == 2

Users == 1..NumUsers
ApiIds == 1..NumApi
WorkerIds == 1..worker_concurrency

PENDING == "PENDING"
PROCESSING == "PROCESSING"
COMPLETED == "COMPLETED"
FAILED == "FAILED"
EpisodeStatus == {PENDING, PROCESSING, COMPLETED, FAILED}

NULL == "NULL"
NoCaptionsMsg == "This video doesn't have captions available."

\* ------------------------------------------------------------------ URLs
\* A URL is a sequence of tokens; a Python substring test is a test for a
\* contiguous run of tokens, str.split(sep)[-1] the part after the last
\* occurrence of sep and str.split(sep)[0] the part before the first.
Contains(url, pat) ==
    \E i \in 1..(Len(url) - Len(pat) + 1) : SubSeq(url, i, i + Len(pat) - 1) = pat

Occurrences(url, pat) ==
    {i \in 1..(Len(url) - Len(pat) + 1) : SubSeq(url, i, i + Len(pat) - 1) = pat}

Max(S) == CHOOSE x \in S : \A y \in S : y <= x
Min(S) == CHOOSE x \in S : \A y \in S : x <= y

SplitLast(url, pat) ==
    IF Occurrences(url, pat) = {} THEN url
    ELSE SubSeq(url, Max(Occurrences(url, pat)) + Len(pat), Len(url))

SplitFirst(url, pat) ==
    IF Occurrences(url, pat) = {} THEN url
    ELSE SubSeq(url, 1, Min(Occurrences(url, pat)) - 1)

UrlWatch == <<"https://", "www.", "youtube.com", "/watch", "?", "v=", "vidA">>
UrlShort == <<"https://", "youtu.be", "/", "vidA", "?", "t=5">>
UrlPod == <<"https://", "pod.example", "/ep1.mp3", "?", "utm=1">>

\* the accepted shapes of one video's URL, each without and with further
\* query parameters
UrlWatchExtra == <<"https://", "www.", "youtube.com", "/watch", "?", "v=", "vidA", "&", "t=5">>
UrlShortPlain == <<"https://", "youtu.be", "/", "vidA">>
UrlEmbed == <<"https://", "www.", "youtube.com", "/embed/", "vidA">>
UrlEmbedExtra == <<"https://", "www.", "youtube.com", "/embed/", "vidA", "?", "start=5">>
VideoShapes == {UrlWatch, UrlWatchExtra, UrlShortPlain, UrlShort, UrlEmbed, UrlEmbedExtra}
CanonicalUrl == <<"https://", "youtube.com", "/watch", "?", "v=", "vidA">>

SpaceIds == {"spaceA"}

is_x_spaces_url(url) ==
    \E h \in {"twitter.com", "x.com"}, s \in SpaceIds : Contains(url, <<h, "/i/spaces/", s>>)

normalize_url(url) ==
    IF Contains(url, <<"youtube.com">>) \/ Contains(url, <<"youtu.be">>)
    THEN LET video_id ==
                 IF Contains(url, <<"youtu.be", "/">>)
                 THEN SplitFirst(SplitLast(url, <<"youtu.be", "/">>), <<"?">>)
                 ELSE IF Contains(url, <<"v=">>)
                 THEN SplitFirst(SplitLast(url, <<"v=">>), <<"&">>)
                 ELSE url
         IN  <<"https://", "youtube.com", "/watch", "?", "v=">> \o video_id
    ELSE IF is_x_spaces_url(url)
    THEN LET s == CHOOSE s \in SpaceIds :
                      \E h \in {"twitter.com", "x.com"} : Contains(url, <<h, "/i/spaces/", s>>)
         IN  <<"https://", "x.com", "/i/spaces/", s>>
    ELSE SplitFirst(url, <<"?">>)

\* sha256(...).hexdigest()[:32]: a function of the normalized URL alone,
\* taken to be collision free.
get_url_hash(url) == <<"sha256">> \o normalize_url(url)

\* A YouTube URL that names no video: a channel page
UrlChannel == <<"https://", "www.", "youtube.com", "/@channel">>

VideoIds == {"vidA"}

\* extract_youtube_video_id: the id after watch?v=, youtu.be/ or /embed/, else
\* after v=; <<>> stands for the ValueError
extract_youtube_video_id(url) ==
    LET heads == {<<"youtube.com", "/watch", "?", "v=">>, <<"youtu.be", "/">>,
                  <<"youtube.com", "/embed/">>}
        first == {v \in VideoIds : \E h \in heads : Contains(url, h \o <<v>>)}
        second == {v \in VideoIds : Contains(url, <<"v=", v>>)}
    IN  IF first # {} THEN <<CHOOSE v \in first : TRUE>>
        ELSE IF second # {} THEN <<CHOOSE v \in second : TRUE>>
        ELSE <<>>

\* ------------------------------------------------------------- the state
VARIABLES
    episodes,        \* the episodes table: row i has id i
    sources,         \* the sources table: id -> row (exists = FALSE once deleted)
    subscriptions,   \* the subscriptions table: <<user_id, source_id>> -> number of rows
    digest_queue,    \* the daily_digest_queue table: <<user_id, episode_id>> -> number of rows
    broker,          \* Celery messages not yet picked up: message -> number of copies
    workers,         \* what each Celery worker process is executing
    api,             \* submit_url and subscribe requests between query and commit
    bot,             \* handle_url between its commit and its process_episode_task.delay
    last             \* the step taken last

vars == <<episodes, sources, subscriptions, digest_queue, broker, workers, api, bot, last>>

\* ----------------------------------------------------------- multisets
BagCount(b, x) == IF x \in DOMAIN b THEN b[x] ELSE 0
BagAdd(b, x) == [y \in DOMAIN b \cup {x} |-> BagCount(b, y) + (IF y = x THEN 1 ELSE 0)]
BagRemove(b, x) ==
    [y \in {z \in DOMAIN b : z # x \/ b[z] > 1} |-> IF y = x THEN b[y] - 1 ELSE b[y]]
BagSize(b) ==
    LET RECURSIVE Sum(_)
        Sum(S) == IF S = {} THEN 0
                  ELSE LET x == CHOOSE x \in S : TRUE IN b[x] + Sum(S \ {x})
    IN  Sum(DOMAIN b)
EmptyBag == [x \in {} |-> 0]


\* ------------------------------------------------------------ registry
NewEpisode(source_id, unique_id, title, url, audio_url) ==
    [source_id |-> source_id, unique_id |-> unique_id, title |-> title, url |-> url,
     audio_url |-> audio_url, transcript |-> NULL, summary |-> NULL, status |-> PENDING,
     error_message |-> NULL, processed_at |-> NULL]

EpisodeIds == 1..Len(episodes)

\* db.query(Episode).filter(Episode.unique_id == uid).first(): the row's id, 0 for None
EpisodeByUniqueId(uid) ==
    IF \E e \in EpisodeIds : episodes[e].unique_id = uid
    THEN Min({e \in EpisodeIds : episodes[e].unique_id = uid})
    ELSE 0

\* ------------------------------------------------------------- Celery
Idle == [task |-> "idle", pc |-> "idle", id |-> 0, retries |-> 0, dirty |-> FALSE,
         stype |-> NULL, feed |-> <<>>, items |-> <<>>, summaries |-> <<>>,
         subs |-> {}, missing |-> {}, title |-> NULL]

Msg(task, id, id2, retries) ==
    [task |-> task, id |-> id, id2 |-> id2, retries |-> retries, countdown |-> 0]

\* task.delay(...) / self.retry(...): one more message in the broker
CanEnqueue == BagSize(broker) < MaxJobs
Delay(b, task, id, id2, retries) == BagAdd(b, Msg(task, id, id2, retries))

\* self.retry(exc=e, countdown=c) of an execution at request.retries = retries:
\* the task is sent again with one retry more, to run after c seconds
Retry(b, task, id, retries, countdown) ==
    BagAdd(b, [Msg(task, id, 0, retries + 1) EXCEPT !.countdown = countdown])

\* the step taken last: what was done, to which row, and by which user (a
\* submission) or at which retry count (a failed task)
Step(op, id) == [op |-> op, id |-> id, arg |-> 0]
StepBy(op, id, arg) == [op |-> op, id |-> id, arg |-> arg]


\* RetryAllowed with the comparison off by one
RetryAllowed_OneMore(retries) == retries <= max_retries

\* ------------------------------------------------- process_episode_task
\* except Exception: rollback, status = FAILED, commit, then self.retry, which
\* sends the task again while request.retries < max_retries and re-raises otherwise.
RetryAllowed(retries) == retries < max_retries

\* A delay that does not grow
Countdown_Fixed(retries) == 300

\* line 116: countdown = 60 * (2 ** self.request.retries)
Countdown(retries) == 60 * (2 ^ retries)

ExceptGeneric(w) ==
    LET e == workers[w].id
        r == workers[w].retries
    IN  /\ RetryAllowed(r) => CanEnqueue
        /\ episodes' = [episodes EXCEPT ![e].status = FAILED]
        /\ broker' = IF RetryAllowed(r)
                     THEN Retry(broker, "process_episode_task", e, r, Countdown(r))
                     ELSE broker
        /\ workers' = [workers EXCEPT ![w] = Idle]


\* ExceptNoCaptions handled as any other exception: no message, and a retry
ExceptNoCaptions_Retried(w) == ExceptGeneric(w)

\* except NoCaptionsError: rollback, status = FAILED with the message, commit, return
ExceptNoCaptions(w) ==
    LET e == workers[w].id
    IN  /\ episodes' = [episodes EXCEPT ![e].status = FAILED,
                                         ![e].error_message = NoCaptionsMsg]
        /\ workers' = [workers EXCEPT ![w] = Idle]
        /\ UNCHANGED broker


\* AlreadyDone without the short-circuit
AlreadyDone_Never(status) == FALSE

\* The short-circuit of lines 35-36: which loaded statuses make the task return
AlreadyDone(status) == status = COMPLETED

\* lines 29-36: the worker takes the message, loads the Episode (the title the
\* query returned is kept to tell what the execution found), returns if COMPLETED
ProcLoad(w, m) ==
    /\ workers[w].task = "idle"
    /\ m \in DOMAIN broker
    /\ m.task = "process_episode_task"
    /\ m.id \in EpisodeIds
    /\ broker' = BagRemove(broker, m)
    /\ IF AlreadyDone(episodes[m.id].status)
       THEN /\ workers' = workers
            /\ last' = Step("process_already_completed", m.id)
       ELSE /\ workers' = [workers EXCEPT ![w] =
                              [Idle EXCEPT !.task = "process_episode_task", !.pc = "mark",
                                           !.id = m.id, !.retries = m.retries,
                                           !.dirty = episodes[m.id].status # PROCESSING,
                                           !.title = episodes[m.id].title]]
            /\ last' = Step("process_load", m.id)
    /\ UNCHANGED <<episodes, sources, subscriptions, digest_queue, api, bot>>

\* A step past the mark that commits nothing
ProcMark_Uncommitted(w) ==
    /\ workers[w].task = "process_episode_task"
    /\ workers[w].pc = "mark"
    /\ workers' = [workers EXCEPT ![w].pc = "classify"]
    /\ last' = Step("process_mark", workers[w].id)
    /\ UNCHANGED <<episodes, sources, subscriptions, digest_queue, broker, api, bot>>

\* lines 38-40: status = PROCESSING, commit.  The flush writes the column only
\* if the value differs from the one the session loaded (dirty).
ProcMark(w) ==
    /\ workers[w].task = "process_episode_task"
    /\ workers[w].pc = "mark"
    /\ episodes' = IF workers[w].dirty
                   THEN [episodes EXCEPT ![workers[w].id].status = PROCESSING]
                   ELSE episodes
    /\ workers' = [workers EXCEPT ![w].pc = "classify"]
    /\ last' = Step("process_mark", workers[w].id)
    /\ UNCHANGED <<sources, subscriptions, digest_queue, broker, api, bot>>

\* lines 42-57: the source type, "" when it cannot be determined (ValueError)
SourceTypeOf(ep) ==
    IF ep.source_id # 0 /\ sources[ep.source_id].exists
    THEN sources[ep.source_id].source_type
    ELSE IF Contains(ep.url, <<"youtube.com">>) \/ Contains(ep.url, <<"youtu.be">>)
    THEN "youtube"
    ELSE IF is_x_spaces_url(ep.url) THEN "x_spaces"
    ELSE IF ep.audio_url # <<>> THEN "podcast"
    ELSE ""

\* lines 42-66 and 80-81: the row is loaded again after the commit, the source
\* type is determined, and for a video without title the title yt-dlp returns
\* (if any) is committed.
ProcClassify(w, got_title) ==
    /\ workers[w].task = "process_episode_task"
    /\ workers[w].pc = "classify"
    /\ LET e == workers[w].id
           ep == episodes[e]
           st == SourceTypeOf(ep)
       IN  IF st = "" \/ (st \notin {"youtube", "x_spaces"} /\ ep.audio_url = <<>>)
           THEN /\ ~got_title
                /\ ExceptGeneric(w)
                /\ last' = StepBy("process_value_error", e, workers[w].retries)
           ELSE /\ got_title => (st \in {"youtube", "x_spaces"} /\ ep.title = NULL)
                /\ episodes' = IF got_title THEN [episodes EXCEPT ![e].title = "title"]
                               ELSE episodes
                /\ workers' = [workers EXCEPT ![w].pc = "transcribe", ![w].stype = st,
                                              ![w].dirty = ep.status # COMPLETED]
                /\ last' = Step("process_classify", e)
                /\ UNCHANGED broker
    /\ UNCHANGED <<sources, subscriptions, digest_queue, api, bot>>

\* lines 84-91: transcript, summary, status = COMPLETED, processed_at, commit
CommitCompleted(w) ==
    LET e == workers[w].id
    IN  [episodes EXCEPT ![e].transcript = "transcript", ![e].summary = "summary",
                         ![e].processed_at = "now",
                         ![e].status = IF workers[w].dirty THEN COMPLETED ELSE @]

Outcomes == {"ok", "no_captions", "error"}

\* process_youtube_episode, transcription.py lines 246-252: whatever
\* get_youtube_transcript raises, the video having no captions or the request
\* for them failing, is raised again as NoCaptionsError
CaptionFailures == {"no_captions", "network_error"}

\* process_youtube_episode extracts the video id before its try block
\* (transcription.py line 244): a URL without one raises ValueError
Malformed(w) ==
    /\ workers[w].stype = "youtube"
    /\ extract_youtube_video_id(episodes[workers[w].id].url) = <<>>

\* lines 59-91 with their handlers: transcribe and summarize end in the
\* COMPLETED commit, in NoCaptionsError (the YouTube path) or in any other
\* exception, which is all a malformed URL can end in.
ProcFinish(w, outcome) ==
    /\ workers[w].task = "process_episode_task"
    /\ workers[w].pc = "transcribe"
    /\ outcome \in CaptionFailures => workers[w].stype = "youtube"
    /\ Malformed(w) => outcome = "error"
    /\ CASE outcome = "ok" ->
              /\ episodes' = CommitCompleted(w)
              /\ workers' = [workers EXCEPT ![w].pc = "fanout"]
              /\ last' = Step("process_completed", workers[w].id)
              /\ UNCHANGED broker
         [] outcome \in CaptionFailures ->
              /\ ExceptNoCaptions(w)
              /\ last' = StepBy("process_no_captions", workers[w].id,
                                IF outcome = "no_captions" THEN 0 ELSE outcome)
         [] outcome = "error" ->
              /\ ExceptGeneric(w)
              /\ last' = StepBy(IF Malformed(w) THEN "process_value_error"
                                ELSE "process_error", workers[w].id, workers[w].retries)
    /\ UNCHANGED <<sources, subscriptions, digest_queue, api, bot>>

\* queue_for_subscribers, lines 121-141: one row for every subscriber of the
\* Episode's source that has none yet
Subscribers(source_id) == {u \in Users : BagCount(subscriptions, <<u, source_id>>) > 0}

\* The Episode's rows rebuilt from the subscribers: rows of other users go
QueueMissing_Rebuilt(q, us, e) ==
    [p \in {r \in DOMAIN q : r[2] # e \/ r[1] \in us} \cup {<<u, e>> : u \in us} |->
        IF p \in DOMAIN q THEN q[p] ELSE 1]

QueueMissing(q, us, e) ==
    [p \in DOMAIN q \cup {<<u, e>> : u \in us} |->
        IF p \in DOMAIN q THEN q[p] ELSE 1]

\* queue_for_subscribers running without another execution between its
\* queries and its commit
ProcFanout(w) ==
    /\ workers[w].task = "process_episode_task"
    /\ workers[w].pc = "fanout"
    /\ LET e == workers[w].id
       IN  /\ digest_queue' = QueueMissing(digest_queue, Subscribers(episodes[e].source_id), e)
           /\ last' = Step("process_fanout", e)
    /\ workers' = [workers EXCEPT ![w] = Idle]
    /\ UNCHANGED <<episodes, sources, subscriptions, broker, api, bot>>

\* queue_for_subscribers as two steps.  Lines 123-139: the subscribers of the
\* Episode's source are read, and for each the query for a queue row of the
\* pair; a DailyDigestQueue object is added to the session for each
\* subscriber that has none.
ProcFanoutQuery(w) ==
    /\ workers[w].task = "process_episode_task"
    /\ workers[w].pc = "fanout"
    /\ LET e == workers[w].id
           subs == Subscribers(episodes[e].source_id)
       IN  workers' = [workers EXCEPT
                          ![w].pc = "fanout_commit",
                          ![w].subs = subs,
                          ![w].missing = {u \in subs : BagCount(digest_queue, <<u, e>>) = 0}]
    /\ last' = Step("process_fanout_query", workers[w].id)
    /\ UNCHANGED <<episodes, sources, subscriptions, digest_queue, broker, api, bot>>

\* the rows <<u, e>> for the users us added to the table
AddQueueItems(q, us, e) ==
    [p \in DOMAIN q \cup {<<u, e>> : u \in us} |->
        BagCount(q, p) + (IF p[2] = e /\ p[1] \in us THEN 1 ELSE 0)]

\* line 141: db.commit() inserts the added rows
ProcFanoutCommit(w) ==
    /\ workers[w].task = "process_episode_task"
    /\ workers[w].pc = "fanout_commit"
    /\ \A u \in workers[w].missing : BagCount(digest_queue, <<u, workers[w].id>>) < MaxDup
    /\ digest_queue' = AddQueueItems(digest_queue, workers[w].missing, workers[w].id)
    /\ workers' = [workers EXCEPT ![w] = Idle]
    /\ last' = Step("process_fanout", workers[w].id)
    /\ UNCHANGED <<episodes, sources, subscriptions, broker, api, bot>>

\* ------------------------------------------------------------ submit_url
ApiIdle == [pc |-> "idle", url |-> <<>>, user_id |-> 0, source_id |-> 0, existing |-> 0,
            status |-> NULL]

\* lines 68-72: the hash and the query for an existing Episode (0 for None, with
\* the status the query loaded); user_id 0 is None
QueryExisting(url, user_id) ==
    LET existing == EpisodeByUniqueId(get_url_hash(url))
    IN  [pc |-> "commit", url |-> url, user_id |-> user_id, source_id |-> 0,
         existing |-> existing,
         status |-> IF existing = 0 THEN NULL ELSE episodes[existing].status]

\* db.add(DailyDigestQueue(user_id, episode_id)); db.commit()
AddQueueItem(q, user_id, e) == BagAdd(q, <<user_id, e>>)


\* InsertEpisode without the unique constraint
InsertEpisode_Unconstrained(eps, row) == Append(eps, row)

\* The INSERT of lines 124-131 under the table's unique constraint: the new
\* table, or the old one when the constraint refuses the row (IntegrityError).
InsertEpisode(eps, row) ==
    IF \A e \in 1..Len(eps) : eps[e].unique_id # row.unique_id THEN Append(eps, row) ELSE eps

\* lines 74-112: the Episode exists
SubmitExisting(r) ==
    LET e == r.existing
    IN  CASE r.status = COMPLETED /\ r.user_id # 0 ->
               /\ CanEnqueue
               /\ broker' = Delay(broker, "send_immediate_digest", r.user_id, e, 0)
               /\ last' = StepBy("submit_send_now", e, r.user_id)
               /\ UNCHANGED <<episodes, digest_queue>>
          [] r.status = FAILED ->
               /\ CanEnqueue
               /\ episodes' = [episodes EXCEPT ![e].status = PENDING,
                                               ![e].error_message = NULL,
                                               ![e].url = normalize_url(r.url)]
               /\ broker' = Delay(broker, "process_episode_task", e, 0, 0)
               /\ last' = StepBy("submit_retry_failed", e, r.user_id)
               /\ UNCHANGED digest_queue
          [] r.status # FAILED /\ ~(r.status = COMPLETED /\ r.user_id # 0) /\ r.user_id # 0 ->
               /\ BagCount(digest_queue, <<r.user_id, e>>) < MaxDup
               /\ digest_queue' = AddQueueItem(digest_queue, r.user_id, e)
               /\ last' = StepBy("submit_queued", e, r.user_id)
               /\ UNCHANGED <<episodes, broker>>
          [] OTHER ->
               /\ last' = StepBy("submit_already_processing", e, r.user_id)
               /\ UNCHANGED <<episodes, digest_queue, broker>>

\* lines 114-150: no Episode was found; the INSERT raises IntegrityError (the
\* request ends in an error) if another execution inserted the unique_id since.
SubmitNew(r) ==
    LET normalized_url == normalize_url(r.url)
        source_type == IF Contains(normalized_url, <<"youtube.com">>)
                          \/ Contains(normalized_url, <<"youtu.be">>) THEN "youtube"
                       ELSE IF is_x_spaces_url(normalized_url) THEN "x_spaces"
                       ELSE "podcast"
        row == NewEpisode(0, get_url_hash(r.url), NULL, normalized_url,
                          IF source_type = "podcast" THEN r.url ELSE <<>>)
        inserted == InsertEpisode(episodes, row)
        e == Len(inserted)
    IN  IF inserted = episodes
        THEN /\ last' = StepBy("submit_integrity_error", 0, r.user_id)
             /\ UNCHANGED <<episodes, digest_queue, broker>>
        ELSE /\ CanEnqueue
             /\ episodes' = inserted
             /\ digest_queue' = IF r.user_id # 0
                                THEN AddQueueItem(digest_queue, r.user_id, e)
                                ELSE digest_queue
             /\ broker' = Delay(broker, "process_episode_task", e, 0, 0)
             /\ last' = StepBy("submit_created", e, r.user_id)

\* lines 74-150 for what the query found
SubmitCommit(r) == IF r.existing # 0 THEN SubmitExisting(r) ELSE SubmitNew(r)

\* submit_url running without another execution between its query and its commit
SubmitUrl(url, user_id) ==
    /\ SubmitCommit(QueryExisting(url, user_id))
    /\ UNCHANGED <<sources, subscriptions, workers, api, bot>>

\* submit_url as two steps, other executions running in between
SubmitQuery(a, url, user_id) ==
    /\ api[a].pc = "idle"
    /\ api' = [api EXCEPT ![a] = QueryExisting(url, user_id)]
    /\ last' = Step("submit_query", 0)
    /\ UNCHANGED <<episodes, sources, subscriptions, digest_queue, broker, workers, bot>>

SubmitFinish(a) ==
    /\ api[a].pc = "commit"
    /\ SubmitCommit(api[a])
    /\ api' = [api EXCEPT ![a] = ApiIdle]
    /\ UNCHANGED <<sources, subscriptions, workers, bot>>

\* ----------------------------------------------------- reprocess_episode
\* lines 185-199
ReprocessEpisode(e) ==
    /\ e \in EpisodeIds
    /\ IF episodes[e].status = PROCESSING
       THEN /\ last' = Step("reprocess_refused", e)
            /\ UNCHANGED <<episodes, broker>>
       ELSE /\ CanEnqueue
            /\ episodes' = [episodes EXCEPT ![e].status = PENDING]
            /\ broker' = Delay(broker, "process_episode_task", e, 0, 0)
            /\ last' = Step("reprocess", e)
    /\ UNCHANGED <<sources, subscriptions, digest_queue, workers, api, bot>>

\* ------------------------------------------------------ the bot's handle_url
\* the bot's own normalize_url and get_url_hash, telegram_bot.py lines 86-103
bot_normalize_url(url) ==
    IF is_x_spaces_url(url) THEN normalize_url(url)
    ELSE <<"https://", "youtube.com", "/watch", "?", "v=">> \o extract_youtube_video_id(url)

bot_get_url_hash(url) == <<"sha256">> \o bot_normalize_url(url)

\* extract_url: the match of the first pattern, which ends with the id's last
\* character
extract_url(text) ==
    IF \E i \in 1..Len(text) : text[i] \in VideoIds
    THEN SubSeq(text, 1, Min({i \in 1..Len(text) : text[i] \in VideoIds}))
    ELSE <<>>

BotUrls == {UrlWatch, UrlShort}

\* lines 204-261: the query, the early returns, and the commit of the new or
\* reset Episode
HandleUrlCommit(text) ==
    /\ bot = 0
    /\ LET url == extract_url(text)
           existing == EpisodeByUniqueId(bot_get_url_hash(url))
       IN  IF existing # 0 /\ episodes[existing].status \in {COMPLETED, PROCESSING}
           THEN /\ last' = Step("bot_no_action", existing)
                /\ UNCHANGED <<episodes, bot>>
           ELSE IF existing = 0
           THEN /\ episodes' = Append(episodes,
                                      NewEpisode(0, bot_get_url_hash(url), NULL,
                                                 bot_normalize_url(url), <<>>))
                /\ bot' = Len(episodes) + 1
                /\ last' = Step("bot_created", Len(episodes) + 1)
           ELSE /\ episodes' = [episodes EXCEPT ![existing].status = PENDING]
                /\ bot' = existing
                /\ last' = Step("bot_reset", existing)
    /\ UNCHANGED <<sources, subscriptions, digest_queue, broker, workers, api>>

\* line 297: process_episode_task.delay(episode_id)
HandleUrlEnqueue ==
    /\ bot # 0
    /\ CanEnqueue
    /\ broker' = Delay(broker, "process_episode_task", bot, 0, 0)
    /\ bot' = 0
    /\ last' = Step("bot_enqueued", bot)
    /\ UNCHANGED <<episodes, sources, subscriptions, digest_queue, workers, api>>

\* -------------------------------------------------------- poll_source_task
\* What fetch_youtube_feed / fetch_podcast_feed return for each source.  The
\* YouTube entry carries yt_videoid; the podcast entry's id is whatever the
\* feed publishes, here the very string submit_url derives for UrlPod, so that
\* the poller and submit_url can meet on one identifier.
Feed(source_id) ==
    IF source_id = 1
    THEN << [unique_id |-> <<"vidA">>, title |-> "title", url |-> UrlWatch, audio_url |-> <<>>] >>
    ELSE << [unique_id |-> get_url_hash(UrlPod), title |-> "title",
             url |-> <<"https://", "pod.example", "/ep1">>,
             audio_url |-> <<"https://", "pod.example", "/ep1.mp3">>] >>

\* sources.py lines 88-96: poll_source_task.delay(source_id)
PollSource(source_id) ==
    /\ sources[source_id].exists
    /\ sources[source_id].last_checked_at < MaxPolls
    /\ CanEnqueue
    /\ broker' = Delay(broker, "poll_source_task", source_id, 0, 0)
    /\ last' = Step("poll_queued", source_id)
    /\ UNCHANGED <<episodes, sources, subscriptions, digest_queue, workers, api, bot>>

\* lines 164-175: the worker takes the message, loads the Source, fetches the feed
PollFetch(w, m, fetched) ==
    /\ workers[w].task = "idle"
    /\ m \in DOMAIN broker
    /\ m.task = "poll_source_task"
    /\ IF ~sources[m.id].exists
       THEN /\ broker' = BagRemove(broker, m)
            /\ last' = Step("poll_no_source", m.id)
            /\ UNCHANGED workers
       ELSE IF fetched
       THEN /\ broker' = BagRemove(broker, m)
            /\ workers' = [workers EXCEPT ![w] =
                              [Idle EXCEPT !.task = "poll_source_task", !.pc = "check",
                                           !.id = m.id, !.retries = m.retries,
                                           !.feed = Feed(m.id)]]
            /\ last' = Step("poll_fetched", m.id)
       ELSE /\ broker' = IF RetryAllowed(m.retries)
                         THEN Retry(BagRemove(broker, m), "poll_source_task", m.id,
                                    m.retries, 300)
                         ELSE BagRemove(broker, m)
            /\ last' = Step("poll_failed", m.id)
            /\ UNCHANGED workers
    /\ UNCHANGED <<episodes, sources, subscriptions, digest_queue, api, bot>>

\* lines 178-185: the query for the entry's unique_id; a known entry is skipped
PollCheck(w) ==
    /\ workers[w].task = "poll_source_task"
    /\ workers[w].pc = "check"
    /\ workers[w].feed # <<>>
    /\ IF EpisodeByUniqueId(Head(workers[w].feed).unique_id) # 0
       THEN workers' = [workers EXCEPT ![w].feed = Tail(@)]
       ELSE workers' = [workers EXCEPT ![w].pc = "insert"]
    /\ last' = Step("poll_check", workers[w].id)
    /\ UNCHANGED <<episodes, sources, subscriptions, digest_queue, broker, api, bot>>

\* lines 187-203: the INSERT is committed, then process_episode_task.delay is
\* called for the new row; an IntegrityError of the commit, or the call failing
\* to reach the broker (sent is FALSE), ends the execution in self.retry
PollInsert(w, sent) ==
    /\ workers[w].task = "poll_source_task"
    /\ workers[w].pc = "insert"
    /\ LET ep_data == Head(workers[w].feed)
           row == NewEpisode(workers[w].id, ep_data.unique_id, ep_data.title, ep_data.url,
                             ep_data.audio_url)
           inserted == InsertEpisode(episodes, row)
       IN  IF inserted = episodes
           THEN /\ RetryAllowed(workers[w].retries) => CanEnqueue
                /\ broker' = IF RetryAllowed(workers[w].retries)
                             THEN Retry(broker, "poll_source_task", workers[w].id,
                                        workers[w].retries, 300)
                             ELSE broker
                /\ workers' = [workers EXCEPT ![w] = Idle]
                /\ last' = Step("poll_integrity_error", workers[w].id)
                /\ sent
                /\ UNCHANGED episodes
           ELSE IF ~sent
           THEN /\ RetryAllowed(workers[w].retries) => CanEnqueue
                /\ episodes' = inserted
                /\ broker' = IF RetryAllowed(workers[w].retries)
                             THEN Retry(broker, "poll_source_task", workers[w].id,
                                        workers[w].retries, 300)
                             ELSE broker
                /\ workers' = [workers EXCEPT ![w] = Idle]
                /\ last' = Step("poll_not_sent", Len(inserted))
           ELSE /\ CanEnqueue
                /\ episodes' = inserted
                /\ broker' = Delay(broker, "process_episode_task", Len(inserted), 0, 0)
                /\ workers' = [workers EXCEPT ![w].feed = Tail(@), ![w].pc = "check"]
                /\ last' = Step("poll_created", Len(inserted))
    /\ UNCHANGED <<sources, subscriptions, digest_queue, api, bot>>

\* PollTime that leaves the time of the last check as it was
PollTime_Unchanged(last_checked_at) == last_checked_at

\* datetime.utcnow() of line 206: a time later than the one stored, counted in
\* completed polls of the source (0 is NULL, never checked)
PollTime(last_checked_at) == last_checked_at + 1

\* lines 205-209: last_checked_at, commit
PollDone(w) ==
    /\ workers[w].task = "poll_source_task"
    /\ workers[w].pc = "check"
    /\ workers[w].feed = <<>>
    /\ sources' = [sources EXCEPT ![workers[w].id].last_checked_at = PollTime(@)]
    /\ workers' = [workers EXCEPT ![w] = Idle]
    /\ last' = Step("poll_done", workers[w].id)
    /\ UNCHANGED <<episodes, subscriptions, digest_queue, broker, api, bot>>

\* ------------------------------------------------------ subscribe_to_source
\* users.py lines 94-117, running without another request between its query
\* and its commit
SubscribeToSource(user_id, source_id) ==
    /\ sources[source_id].exists
    /\ IF BagCount(subscriptions, <<user_id, source_id>>) > 0
       THEN /\ last' = Step("already_subscribed", user_id)
            /\ UNCHANGED subscriptions
       ELSE /\ subscriptions' = BagAdd(subscriptions, <<user_id, source_id>>)
            /\ last' = Step("subscribed", user_id)
    /\ UNCHANGED <<episodes, sources, digest_queue, broker, workers, api, bot>>

\* subscribe_to_source as two steps.  Lines 97-111: the user and the source are
\* looked up, then the Subscription; the request ends with "Already subscribed"
\* if there is one.
SubscribeQuery(a, user_id, source_id) ==
    /\ api[a].pc = "idle"
    /\ IF ~sources[source_id].exists
       THEN /\ last' = StepBy("subscribe_source_not_found", source_id, user_id)
            /\ UNCHANGED api
       ELSE IF BagCount(subscriptions, <<user_id, source_id>>) > 0
       THEN /\ last' = StepBy("already_subscribed", source_id, user_id)
            /\ UNCHANGED api
       ELSE /\ api' = [api EXCEPT ![a] = [ApiIdle EXCEPT !.pc = "subscribe",
                                                          !.user_id = user_id,
                                                          !.source_id = source_id]]
            /\ last' = StepBy("subscribe_query", source_id, user_id)
    /\ UNCHANGED <<episodes, sources, subscriptions, digest_queue, broker, workers, bot>>

\* lines 113-117: db.add(Subscription(...)); db.commit().  The table has no
\* unique constraint, so the INSERT always succeeds.
SubscribeFinish(a) ==
    /\ api[a].pc = "subscribe"
    /\ BagCount(subscriptions, <<api[a].user_id, api[a].source_id>>) < MaxDup
    /\ subscriptions' = BagAdd(subscriptions, <<api[a].user_id, api[a].source_id>>)
    /\ api' = [api EXCEPT ![a] = ApiIdle]
    /\ last' = StepBy("subscribed", api[a].source_id, api[a].user_id)
    /\ UNCHANGED <<episodes, sources, digest_queue, broker, workers, bot>>

\* unsubscribe_from_source, users.py lines 120-133: the first row found is deleted
UnsubscribeFromSource(user_id, source_id) ==
    /\ IF BagCount(subscriptions, <<user_id, source_id>>) = 0
       THEN /\ last' = StepBy("unsubscribe_not_found", source_id, user_id)
            /\ UNCHANGED subscriptions
       ELSE /\ subscriptions' = BagRemove(subscriptions, <<user_id, source_id>>)
            /\ last' = StepBy("unsubscribed", source_id, user_id)
    /\ UNCHANGED <<episodes, sources, digest_queue, broker, workers, api, bot>>

\* -------------------------------------------------------------- delete_source
\* sources.py lines 76-85: db.delete(source).  The relationships episodes and
\* subscriptions of Source declare no cascade, so the unit of work sets the
\* source_id of the Source's Episodes and Subscriptions to NULL (0) and then
\* deletes the row.
DeleteSource(source_id) ==
    /\ sources[source_id].exists
    /\ sources' = [sources EXCEPT ![source_id].exists = FALSE]
    /\ episodes' = [e \in DOMAIN episodes |->
                       IF episodes[e].source_id = source_id
                       THEN [episodes[e] EXCEPT !.source_id = 0]
                       ELSE episodes[e]]
    /\ subscriptions' =
          [p \in {q \in DOMAIN subscriptions : q[2] # source_id}
                    \cup {<<u, 0>> : u \in {v \in Users :
                                              BagCount(subscriptions, <<v, source_id>>) > 0}} |->
              IF p[2] = 0
              THEN BagCount(subscriptions, p) + BagCount(subscriptions, <<p[1], source_id>>)
              ELSE subscriptions[p]]
    /\ last' = Step("source_deleted", source_id)
    /\ UNCHANGED <<digest_queue, broker, workers, api, bot>>

\* ---------------------------------------------------- send_user_digest_task
\* The users table: user 1 has a Telegram chat and an email address, user 2
\* neither, every other user a Telegram chat only
UserRow(user_id) ==
    [telegram_chat_id |-> user_id # 2, email |-> user_id = 1,
     preferred_digest_time |-> IF user_id = 1 THEN <<"08", ":", "00">>
                               ELSE <<"09", ":", "30">>]

\* A match of the whole time against the hour, minute 00
LikeHour_OnTheHour(preferred_digest_time, current_hour) ==
    preferred_digest_time = <<current_hour, ":", "00">>

\* lines 225-227: preferred_digest_time LIKE '<current_hour>:%'
LikeHour(preferred_digest_time, current_hour) ==
    /\ Len(preferred_digest_time) >= 2
    /\ SubSeq(preferred_digest_time, 1, 2) = <<current_hour, ":">>

\* lines 217-234: one send_user_digest_task per user whose preferred hour is now
SendScheduledDigests(current_hour) ==
    LET users == {u \in Users : LikeHour(UserRow(u).preferred_digest_time, current_hour)}
        RECURSIVE DelayAll(_, _)
        DelayAll(b, us) ==
            IF us = {} THEN b
            ELSE LET u == Min(us)
                 IN  DelayAll(Delay(b, "send_user_digest_task", u, 0, 0), us \ {u})
    IN  /\ BagSize(broker) + Cardinality(users) <= MaxJobs
        /\ broker' = DelayAll(broker, users)
        /\ last' = StepBy("digests_scheduled", Cardinality(users), current_hour)
        /\ UNCHANGED <<episodes, sources, subscriptions, digest_queue, workers, api, bot>>

\* the rows of one user in daily_digest_queue
QueueItemsOf(user_id) ==
    [p \in {q \in DOMAIN digest_queue : q[1] = user_id} |-> digest_queue[p]]

\* Qualifying without the test of status and summary
Qualifying_AnyStatus(items) ==
    [p \in DOMAIN items |->
        [n |-> items[p], title |-> episodes[p[2]].title, summary |-> episodes[p[2]].summary]]

\* lines 258-266: of the loaded rows, those whose Episode is COMPLETED and has
\* a summary, each with the title and the summary read
Qualifying(items) ==
    [p \in {q \in DOMAIN items : /\ episodes[q[2]].status = COMPLETED
                                 /\ episodes[q[2]].summary # NULL} |->
        [n |-> items[p], title |-> episodes[p[2]].title, summary |-> episodes[p[2]].summary]]

\* len(summaries): one entry for every qualifying row
NumSummaries(summaries) ==
    LET RECURSIVE Sum(_)
        Sum(S) == IF S = {} THEN 0
                  ELSE LET p == CHOOSE p \in S : TRUE IN summaries[p].n + Sum(S \ {p})
    IN  Sum(DOMAIN summaries)

\* lines 244-269: the worker takes the message and loads the user's queue items
\* and their summaries; it returns if there is nothing to send
DigestLoad(w, m) ==
    /\ workers[w].task = "idle"
    /\ m \in DOMAIN broker
    /\ m.task = "send_user_digest_task"
    /\ broker' = BagRemove(broker, m)
    /\ LET queue_items == QueueItemsOf(m.id)
       IN  IF DOMAIN queue_items = {}
           THEN /\ last' = Step("digest_no_pending_items", m.id)
                /\ UNCHANGED workers
           ELSE IF DOMAIN Qualifying(queue_items) = {}
           THEN /\ last' = Step("digest_no_completed_summaries", m.id)
                /\ UNCHANGED workers
           ELSE /\ workers' = [workers EXCEPT ![w] =
                                  [Idle EXCEPT !.task = "send_user_digest_task",
                                               !.pc = "deliver", !.id = m.id,
                                               !.retries = m.retries,
                                               !.items = queue_items,
                                               !.summaries = Qualifying(queue_items)]]
                /\ last' = Step("digest_loaded", m.id)
    /\ UNCHANGED <<episodes, sources, subscriptions, digest_queue, api, bot>>


\* NeedsSynthesis with the model called for a single summary too
NeedsSynthesis_Always(n) == n >= 1

\* synthesize_digest, summarization.py lines 113-131: the model is called for
\* two or more summaries
NeedsSynthesis(n) == n >= 2

\* the f-string's rendering of a title
TitleText(title) == IF title = NULL THEN "None" ELSE title

\* what synthesize_digest returns: for one summary the title as a heading and
\* the summary, else the model's answer to the summaries
synthesize_digest(summaries) ==
    IF DOMAIN summaries = {} THEN <<"No new content to summarize today.">>
    ELSE IF ~NeedsSynthesis(NumSummaries(summaries))
    THEN LET p == CHOOSE p \in DOMAIN summaries : TRUE
         IN  <<"# ", TitleText(summaries[p].title), "\n\n", summaries[p].summary>>
    ELSE <<"synthesized", NumSummaries(summaries)>>

\* one channel of lines 277-294: not attempted unless configured, else the
\* outcome of the one attempt
Attempt(configured, ok) == IF ~configured THEN "none" ELSE IF ok THEN "ok" ELSE "failed"


\* Delivered whatever the channels report
Delivered_Always(telegram, email) == TRUE

\* Delivered only when both channels report success
Delivered_Both(telegram, email) == telegram = "ok" /\ email = "ok"

\* the flag delivered of lines 275-296
Delivered(telegram, email) == telegram = "ok" \/ email = "ok"

\* lines 296-300: db.delete of every loaded row.  items counts the loaded rows
\* that are still in the table.
DeleteItems(q, items) ==
    [p \in {x \in DOMAIN q : x \notin DOMAIN items \/ q[x] > items[x]} |->
        IF p \in DOMAIN items THEN q[p] - items[p] ELSE q[p]]

\* The rows another execution has loaded, less the rows deleted here.  Every
\* execution loads all the rows the user has at that time, so of two loaded
\* sets one holds the other, and the DELETE of a row that is gone deletes
\* nothing.
StillThere(loaded, deleted) ==
    [p \in DOMAIN loaded |->
        IF p \in DOMAIN deleted
        THEN (IF loaded[p] > deleted[p] THEN loaded[p] - deleted[p] ELSE 0)
        ELSE loaded[p]]

\* lines 271-306: synthesis, one attempt for each configured channel, the
\* loaded rows deleted if one succeeded, self.retry(countdown=300) otherwise
DigestDeliver(w, synth_ok, telegram_ok, email_ok) ==
    /\ workers[w].task = "send_user_digest_task"
    /\ workers[w].pc = "deliver"
    /\ LET u == workers[w].id
           r == workers[w].retries
           calls == IF NeedsSynthesis(NumSummaries(workers[w].summaries)) THEN 1 ELSE 0
           synthesized == calls = 0 \/ synth_ok
           telegram == IF synthesized THEN Attempt(UserRow(u).telegram_chat_id, telegram_ok)
                       ELSE "none"
           email == IF synthesized THEN Attempt(UserRow(u).email, email_ok) ELSE "none"
           report == [retries |-> r, synth_calls |-> calls, telegram |-> telegram,
                      email |-> email,
                      digest |-> IF synthesized THEN synthesize_digest(workers[w].summaries)
                                 ELSE <<>>]
       IN  /\ calls = 0 => synth_ok
           /\ ~synthesized => (telegram_ok /\ email_ok)
           /\ ~UserRow(u).telegram_chat_id => telegram_ok
           /\ ~UserRow(u).email => email_ok
           /\ IF synthesized /\ Delivered(telegram, email)
              THEN /\ digest_queue' = DeleteItems(digest_queue, workers[w].items)
                   /\ workers' = [v \in WorkerIds |->
                                    IF v = w THEN Idle
                                    ELSE IF workers[v].task = "send_user_digest_task"
                                    THEN [workers[v] EXCEPT
                                             !.items = StillThere(@, workers[w].items)]
                                    ELSE workers[v]]
                   /\ last' = StepBy("digest_delivered", u, report)
                   /\ UNCHANGED broker
              ELSE /\ RetryAllowed(r) => CanEnqueue
                   /\ broker' = IF RetryAllowed(r)
                                THEN Retry(broker, "send_user_digest_task", u, r, 300)
                                ELSE broker
                   /\ workers' = [workers EXCEPT ![w] = Idle]
                   /\ last' = StepBy("digest_failed", u, report)
                   /\ UNCHANGED digest_queue
    /\ UNCHANGED <<episodes, sources, subscriptions, api, bot>>

\* ---------------------------------------------------- send_immediate_digest
\* An immediate delivery that, once sent, also drops the user's queue rows
SendImmediateDigest_Dequeue(w, m, telegram_ok, email_ok) ==
    /\ workers[w].task = "idle"
    /\ m \in DOMAIN broker
    /\ m.task = "send_immediate_digest"
    /\ m.id2 \in EpisodeIds
    /\ episodes[m.id2].status = COMPLETED
    /\ telegram_ok /\ email_ok
    /\ broker' = BagRemove(broker, m)
    /\ digest_queue' = [p \in {q \in DOMAIN digest_queue : q # <<m.id, m.id2>>} |->
                           digest_queue[p]]
    /\ last' = StepBy("immediate_sent", m.id2,
                      [user_id |-> m.id, telegram |-> "ok", email |-> "ok"])
    /\ UNCHANGED <<episodes, sources, subscriptions, workers, api, bot>>

\* send_immediate_digest, lines 311-340: refused unless the Episode is
\* COMPLETED; else Telegram is attempted if configured and then email if
\* configured. Neither call is guarded, so an exception of the Telegram call
\* ends the task before the email call. The task writes nothing and is not retried.
SendImmediateDigest(w, m, telegram_ok, email_ok) ==
    /\ workers[w].task = "idle"
    /\ m \in DOMAIN broker
    /\ m.task = "send_immediate_digest"
    /\ LET u == m.id
           e == m.id2
           found == e \in EpisodeIds /\ episodes[e].status = COMPLETED
           telegram == IF found THEN Attempt(UserRow(u).telegram_chat_id, telegram_ok)
                       ELSE "none"
           email == IF found /\ telegram # "failed"
                    THEN Attempt(UserRow(u).email, email_ok) ELSE "none"
           report == [user_id |-> u, telegram |-> telegram, email |-> email]
       IN  /\ (~found \/ ~UserRow(u).telegram_chat_id) => telegram_ok
           /\ (~found \/ ~UserRow(u).email \/ telegram = "failed") => email_ok
           /\ last' = StepBy(IF ~found THEN "immediate_refused"
                             ELSE IF "failed" \in {telegram, email} THEN "immediate_failed"
                             ELSE "immediate_sent", e, report)
    /\ broker' = BagRemove(broker, m)
    /\ UNCHANGED <<episodes, sources, subscriptions, digest_queue, workers, api, bot>>

\* ------------------------------------------------------------------ Init
SourceIds == {1, 2}

Init ==
    /\ episodes = <<>>
    /\ sources = [s \in SourceIds |->
                     [exists |-> TRUE, source_type |-> IF s = 1 THEN "youtube" ELSE "podcast",
                      last_checked_at |-> 0]]
    /\ subscriptions = EmptyBag
    /\ digest_queue = EmptyBag
    /\ broker = EmptyBag
    /\ workers = [w \in WorkerIds |-> Idle]
    /\ api = [a \in ApiIds |-> ApiIdle]
    /\ bot = 0
    /\ last = Step("init", 0)

\* --------------------------------------- the Episode Processor's behaviours
ProcessSteps ==
    \/ \E w \in WorkerIds, m \in DOMAIN broker : ProcLoad(w, m)
    \/ \E w \in WorkerIds : ProcMark(w)
    \/ \E w \in WorkerIds, got_title \in BOOLEAN : ProcClassify(w, got_title)
    \/ \E w \in WorkerIds, outcome \in Outcomes : ProcFinish(w, outcome)
    \/ \E w \in WorkerIds : ProcFanout(w)

\* One content item, submitted without a user id through the API or sent to
\* the bot, reprocessed at will, processed by both workers.
ProcUrls == {UrlWatch, UrlShort}

NextProc ==
    \/ ProcessSteps
    \/ \E url \in ProcUrls : SubmitUrl(url, 0)
    \/ \E e \in EpisodeIds : ReprocessEpisode(e)
    \/ \E text \in BotUrls : HandleUrlCommit(text)
    \/ HandleUrlEnqueue

SpecProc == Init /\ [][NextProc]_vars

\* ------------------------------------------- submissions that carry a user
\* One content item submitted with or without a user id, so that the digest
\* queue and the immediate delivery take part.
NextQueue ==
    \/ ProcessSteps
    \/ \E url \in ProcUrls, user_id \in {0, 1} : SubmitUrl(url, user_id)
    \/ \E e \in EpisodeIds : ReprocessEpisode(e)
    \/ \E w \in WorkerIds, m \in DOMAIN broker, telegram_ok, email_ok \in BOOLEAN :
          SendImmediateDigest(w, m, telegram_ok, email_ok)

SpecQueue == Init /\ [][NextQueue]_vars

\* ------------------------------------------------ the registry's behaviours
\* Every way an Episode row comes to exist, with the query and the INSERT of
\* one execution apart: interleaved submit_url requests for UrlPod and
\* interleaved polls of the podcast source, whose entry has the same identifier.
NextReg ==
    \/ \E a \in ApiIds : SubmitQuery(a, UrlPod, 0)
    \/ \E a \in ApiIds : SubmitFinish(a)
    \/ PollSource(2)
    \/ \E w \in WorkerIds, m \in DOMAIN broker : PollFetch(w, m, TRUE)
    \/ \E w \in WorkerIds : PollCheck(w)
    \/ \E w \in WorkerIds : PollInsert(w, TRUE)
    \/ \E w \in WorkerIds : PollDone(w)
    \/ \E w \in WorkerIds, m \in DOMAIN broker : ProcLoad(w, m)
    \/ \E w \in WorkerIds : ProcMark(w)
    \/ \E w \in WorkerIds : ProcClassify(w, FALSE)
    \/ \E w \in WorkerIds : ProcFinish(w, "ok")
    \/ \E w \in WorkerIds : ProcFanout(w)

SpecReg == Init /\ [][NextReg]_vars

\* ------------------------------------------------- one video, every way in
\* One video submitted in each of its three URL shapes and published in the
\* feed of the YouTube source, which is polled again and again.
IdentUrls == {UrlWatch, UrlShort, UrlEmbed}

NextIdent ==
    \/ \E url \in IdentUrls : SubmitUrl(url, 0)
    \/ PollSource(1)
    \/ \E w \in WorkerIds, m \in DOMAIN broker : PollFetch(w, m, TRUE)
    \/ \E w \in WorkerIds : PollCheck(w)
    \/ \E w \in WorkerIds : PollInsert(w, TRUE)
    \/ \E w \in WorkerIds : PollDone(w)
    \/ \E w \in WorkerIds, m \in DOMAIN broker : ProcLoad(w, m)
    \/ \E w \in WorkerIds : ProcMark(w)
    \/ \E w \in WorkerIds : ProcClassify(w, FALSE)
    \/ \E w \in WorkerIds : ProcFinish(w, "ok")
    \/ \E w \in WorkerIds : ProcFanout(w)

SpecIdent == Init /\ [][NextIdent]_vars

\* ------------------------------------------------------------------ fan-out
\* The Episode of the YouTube source's feed, processed (and reprocessed) while
\* users subscribe to the source; the queries and the commit of
\* queue_for_subscribers are separate steps.
NextFan ==
    \/ \E u \in Users : SubscribeToSource(u, 1)
    \/ PollSource(1)
    \/ \E w \in WorkerIds, m \in DOMAIN broker : PollFetch(w, m, TRUE)
    \/ \E w \in WorkerIds : PollCheck(w)
    \/ \E w \in WorkerIds : PollInsert(w, TRUE)
    \/ \E w \in WorkerIds : PollDone(w)
    \/ \E e \in EpisodeIds : ReprocessEpisode(e)
    \/ \E w \in WorkerIds, m \in DOMAIN broker : ProcLoad(w, m)
    \/ \E w \in WorkerIds : ProcMark(w)
    \/ \E w \in WorkerIds : ProcClassify(w, FALSE)
    \/ \E w \in WorkerIds : ProcFinish(w, "ok")
    \/ \E w \in WorkerIds : ProcFanoutQuery(w)
    \/ \E w \in WorkerIds : ProcFanoutCommit(w)

SpecFan == Init /\ [][NextFan]_vars

\* ------------------------------------------------------------ the digests
\* A video submitted by every user and a podcast episode submitted by user 1,
\* processed to COMPLETED, and the hourly dispatch of the users' digests with
\* every outcome of synthesis and of the two channels.
Hours == {"08", "09"}

NextDigest ==
    \/ \E user_id \in Users : SubmitUrl(UrlWatch, user_id)
    \/ SubmitUrl(UrlPod, 1)
    \/ \E w \in WorkerIds, m \in DOMAIN broker : ProcLoad(w, m)
    \/ \E w \in WorkerIds : ProcMark(w)
    \/ \E w \in WorkerIds : ProcClassify(w, FALSE)
    \/ \E w \in WorkerIds : ProcFinish(w, "ok")
    \/ \E w \in WorkerIds : ProcFanout(w)
    \/ \E w \in WorkerIds, m \in DOMAIN broker, telegram_ok, email_ok \in BOOLEAN :
          SendImmediateDigest(w, m, telegram_ok, email_ok)
    \/ \E current_hour \in Hours : SendScheduledDigests(current_hour)
    \/ \E w \in WorkerIds, m \in DOMAIN broker : DigestLoad(w, m)
    \/ \E w \in WorkerIds, synth_ok, telegram_ok, email_ok \in BOOLEAN :
          DigestDeliver(w, synth_ok, telegram_ok, email_ok)

SpecDigest == Init /\ [][NextDigest]_vars

\* ------------------------------------------------- the life of a queue row
\* One podcast episode, submitted by user 1 and found by the poller in the
\* feed user 1 subscribes to, with every operation that touches the Episode
\* or the digest queue.
NextItem ==
    \/ SubmitUrl(UrlPod, 1)
    \/ PollSource(2)
    \/ \E w \in WorkerIds, m \in DOMAIN broker : PollFetch(w, m, TRUE)
    \/ \E w \in WorkerIds : PollCheck(w)
    \/ \E w \in WorkerIds : PollInsert(w, TRUE)
    \/ \E w \in WorkerIds : PollDone(w)
    \/ SubscribeToSource(1, 2)
    \/ UnsubscribeFromSource(1, 2)
    \/ \E e \in EpisodeIds : ReprocessEpisode(e)
    \/ \E w \in WorkerIds, m \in DOMAIN broker : ProcLoad(w, m)
    \/ \E w \in WorkerIds : ProcMark(w)
    \/ \E w \in WorkerIds : ProcClassify(w, FALSE)
    \/ \E w \in WorkerIds : ProcFinish(w, "ok")
    \/ \E w \in WorkerIds : ProcFanout(w)
    \/ \E w \in WorkerIds, m \in DOMAIN broker, telegram_ok, email_ok \in BOOLEAN :
          SendImmediateDigest(w, m, telegram_ok, email_ok)
    \/ SendScheduledDigests("08")
    \/ \E w \in WorkerIds, m \in DOMAIN broker : DigestLoad(w, m)
    \/ \E w \in WorkerIds, synth_ok, telegram_ok, email_ok \in BOOLEAN :
          DigestDeliver(w, synth_ok, telegram_ok, email_ok)

SpecItem == Init /\ [][NextItem]_vars

\* ------------------------------------------------- racing submissions
\* Interleaved submit_url requests for UrlPod, with and without a user id,
\* with the query and the INSERT of one request apart, and the processing of
\* the Episode.
NextRace ==
    \/ \E a \in ApiIds, user_id \in {0, 1} : SubmitQuery(a, UrlPod, user_id)
    \/ \E a \in ApiIds : SubmitFinish(a)
    \/ \E w \in WorkerIds, m \in DOMAIN broker : ProcLoad(w, m)
    \/ \E w \in WorkerIds : ProcMark(w)
    \/ \E w \in WorkerIds : ProcClassify(w, FALSE)
    \/ \E w \in WorkerIds : ProcFinish(w, "ok")
    \/ \E w \in WorkerIds : ProcFanout(w)

SpecRace == Init /\ [][NextRace]_vars

\* ------------------------------------------------------------ the retries
\* The three tasks that retry, each with its failures: the processing of a
\* submitted podcast episode, the poll of the podcast feed, which cannot be
\* fetched, and the digests dispatched at either hour.
NextRetry ==
    \/ SubmitUrl(UrlPod, 1)
    \/ \E w \in WorkerIds, m \in DOMAIN broker : ProcLoad(w, m)
    \/ \E w \in WorkerIds : ProcMark(w)
    \/ \E w \in WorkerIds : ProcClassify(w, FALSE)
    \/ \E w \in WorkerIds, outcome \in {"ok", "error"} : ProcFinish(w, outcome)
    \/ \E w \in WorkerIds : ProcFanout(w)
    \/ PollSource(2)
    \/ \E w \in WorkerIds, m \in DOMAIN broker : PollFetch(w, m, FALSE)
    \/ \E current_hour \in Hours : SendScheduledDigests(current_hour)
    \/ \E w \in WorkerIds, m \in DOMAIN broker : DigestLoad(w, m)
    \/ \E w \in WorkerIds, synth_ok, telegram_ok, email_ok \in BOOLEAN :
          DigestDeliver(w, synth_ok, telegram_ok, email_ok)

SpecRetry == Init /\ [][NextRetry]_vars

\* ------------------------------------------------------------ the poller
\* The polls of the YouTube source, with a feed that cannot be fetched and a
\* broker that cannot be reached among the outcomes, and the processing of
\* the Episode the poll creates.
NextPoll ==
    \/ PollSource(1)
    \/ \E w \in WorkerIds, m \in DOMAIN broker, fetched \in BOOLEAN : PollFetch(w, m, fetched)
    \/ \E w \in WorkerIds : PollCheck(w)
    \/ \E w \in WorkerIds, sent \in BOOLEAN : PollInsert(w, sent)
    \/ \E w \in WorkerIds : PollDone(w)
    \/ \E w \in WorkerIds, m \in DOMAIN broker : ProcLoad(w, m)
    \/ \E w \in WorkerIds : ProcMark(w)
    \/ \E w \in WorkerIds : ProcClassify(w, FALSE)
    \/ \E w \in WorkerIds : ProcFinish(w, "ok")
    \/ \E w \in WorkerIds : ProcFanout(w)

SpecPoll == Init /\ [][NextPoll]_vars

\* ------------------------------------------------------- deleted sources
\* Users subscribe to and unsubscribe from the sources, sources are deleted,
\* and a video submitted without a user id is processed.
NextOrphan ==
    \/ \E u \in Users, s \in SourceIds : SubscribeToSource(u, s)
    \/ \E u \in Users, s \in SourceIds : UnsubscribeFromSource(u, s)
    \/ \E s \in SourceIds : DeleteSource(s)
    \/ SubmitUrl(UrlWatch, 0)
    \/ \E w \in WorkerIds, m \in DOMAIN broker : ProcLoad(w, m)
    \/ \E w \in WorkerIds : ProcMark(w)
    \/ \E w \in WorkerIds : ProcClassify(w, FALSE)
    \/ \E w \in WorkerIds : ProcFinish(w, "ok")
    \/ \E w \in WorkerIds : ProcFanout(w)

SpecOrphan == Init /\ [][NextOrphan]_vars

\* ------------------------------------------------------------ worker crash
\* The worker process running process_episode_task is killed (the hard
\* task_time_limit, or the machine): no handler runs, the open transaction is
\* rolled back, and the message, acknowledged when it was received, is gone.
Crash(w) ==
    /\ workers[w].task = "process_episode_task"
    /\ workers' = [workers EXCEPT ![w] = Idle]
    /\ last' = StepBy("worker_crash", workers[w].id, workers[w].pc)
    /\ UNCHANGED <<episodes, sources, subscriptions, digest_queue, broker, api, bot>>

\* One content item submitted and processed by executions that may be killed
\* at any point.
NextCrash ==
    \/ \E user_id \in {0, 1} : SubmitUrl(UrlWatch, user_id)
    \/ \E w \in WorkerIds, m \in DOMAIN broker : ProcLoad(w, m)
    \/ \E w \in WorkerIds : ProcMark(w)
    \/ \E w \in WorkerIds, got_title \in BOOLEAN : ProcClassify(w, got_title)
    \/ \E w \in WorkerIds, outcome \in {"ok", "no_captions"} : ProcFinish(w, outcome)
    \/ \E w \in WorkerIds : ProcFanout(w)
    \/ \E w \in WorkerIds : Crash(w)

SpecCrash == Init /\ [][NextCrash]_vars

\* ... and with the requests that reset an Episode: reprocess_episode and the
\* submission of its URL again.
NextStuck ==
    \/ \E user_id \in {0, 1} : SubmitUrl(UrlWatch, user_id)
    \/ \E e \in EpisodeIds : ReprocessEpisode(e)
    \/ \E w \in WorkerIds, m \in DOMAIN broker : ProcLoad(w, m)
    \/ \E w \in WorkerIds : ProcMark(w)
    \/ \E w \in WorkerIds : ProcClassify(w, FALSE)
    \/ \E w \in WorkerIds : ProcFinish(w, "ok")
    \/ \E w \in WorkerIds : ProcFanout(w)
    \/ \E w \in WorkerIds : Crash(w)

SpecStuck == Init /\ [][NextStuck]_vars

\* The Episode of the YouTube source's feed, to which user 1 subscribes,
\* processed by executions that may be killed.  The workers go on with what
\* they have taken and take what waits in the broker; nothing obliges a
\* request, a poll or a kill to happen.
WorkerSteps ==
    \/ \E w \in WorkerIds, m \in DOMAIN broker : PollFetch(w, m, TRUE)
    \/ \E w \in WorkerIds : PollCheck(w)
    \/ \E w \in WorkerIds : PollInsert(w, TRUE)
    \/ \E w \in WorkerIds : PollDone(w)
    \/ \E w \in WorkerIds, m \in DOMAIN broker : ProcLoad(w, m)
    \/ \E w \in WorkerIds : ProcMark(w)
    \/ \E w \in WorkerIds : ProcClassify(w, FALSE)
    \/ \E w \in WorkerIds : ProcFinish(w, "ok")
    \/ \E w \in WorkerIds : ProcFanout(w)

NextLost ==
    \/ WorkerSteps
    \/ SubscribeToSource(1, 1)
    \/ PollSource(1)
    \/ \E w \in WorkerIds : Crash(w)

SpecLost == Init /\ [][NextLost]_vars /\ WF_vars(WorkerSteps)

\* ------------------------------------------------------- malformed input
\* A YouTube URL that names no video and one that names a video, submitted
\* and processed, with a failing summarization and a failing request for the
\* captions among the outcomes.
FailUrls == {UrlChannel, UrlWatch}

NextFail ==
    \/ \E url \in FailUrls : SubmitUrl(url, 0)
    \/ \E w \in WorkerIds, m \in DOMAIN broker : ProcLoad(w, m)
    \/ \E w \in WorkerIds : ProcMark(w)
    \/ \E w \in WorkerIds : ProcClassify(w, FALSE)
    \/ \E w \in WorkerIds, outcome \in {"ok", "error", "network_error"} :
          ProcFinish(w, outcome)
    \/ \E w \in WorkerIds : ProcFanout(w)

SpecFail == Init /\ [][NextFail]_vars

\* ------------------------------------------------------------ subscriptions
\* Subscribe requests of every user for every source, the query and the INSERT
\* of one request apart, and unsubscribe requests.
NextSub ==
    \/ \E a \in ApiIds, u \in Users, s \in SourceIds : SubscribeQuery(a, u, s)
    \/ \E a \in ApiIds : SubscribeFinish(a)
    \/ \E u \in Users, s \in SourceIds : UnsubscribeFromSource(u, s)

SpecSub == Init /\ [][NextSub]_vars

\* ------------------------------------------------------------ the claims
ProcessMsgs(e) == {m \in DOMAIN broker : m.task = "process_episode_task" /\ m.id = e}

\* the executions of process_episode_task for Episode e that are under way
Running(e) == {w \in WorkerIds : workers[w].task = "process_episode_task" /\ workers[w].id = e}

\* ... and those of them past the commit of PROCESSING
Working(e) == {w \in Running(e) : workers[w].pc \in {"classify", "transcribe"}}

Scheduled(e) ==
    LET RECURSIVE Sum(_)
        Sum(S) == IF S = {} THEN 0
                  ELSE LET m == CHOOSE m \in S : TRUE IN broker[m] + Sum(S \ {m})
    IN  Sum(ProcessMsgs(e))

\* the worker took message m from the broker in this step
Taken(m) == m \in DOMAIN broker /\ broker' = BagRemove(broker, m)

\* C1: two concurrent invocations of process_episode_task for one Episode give
\* one transcribe/summarize cycle: never are two executions for the same
\* Episode both past the commit of PROCESSING.
C1_OneCyclePerEpisode == \A e \in EpisodeIds : Cardinality(Working(e)) <= 1

\* C2: an invocation of process_episode_task that finds the Episode PROCESSING
\* no-ops: no worker starts on it and the Episode is left as it was.
C2_ProcessingNoOp ==
    [][\A m \in DOMAIN broker :
          (/\ m.task = "process_episode_task"
           /\ Taken(m)
           /\ episodes[m.id].status = PROCESSING)
          => (workers' = workers /\ episodes' = episodes)]_vars

\* C3: at most one scheduled-or-running processing job per Episode id.
C3_OneJobPerEpisode ==
    \A e \in EpisodeIds : Scheduled(e) + Cardinality(Running(e)) <= 1

ProcessOps == {"process_mark", "process_classify", "process_completed", "process_no_captions",
               "process_error", "process_value_error"}
ManualResetOps == {"reprocess", "submit_retry_failed", "bot_reset"}

\* C4: an Episode's status changes only along PENDING -> PROCESSING,
\* PROCESSING -> COMPLETED and PROCESSING -> FAILED, made by
\* process_episode_task, and FAILED -> PENDING, made by a reprocess or a
\* re-submission.
C4_StatusEdges ==
    [][\A e \in EpisodeIds :
          episodes'[e].status # episodes[e].status =>
              \/ /\ <<episodes[e].status, episodes'[e].status>> \in
                        {<<PENDING, PROCESSING>>, <<PROCESSING, COMPLETED>>,
                         <<PROCESSING, FAILED>>}
                 /\ last'.op \in ProcessOps
              \/ /\ <<episodes[e].status, episodes'[e].status>> = <<FAILED, PENDING>>
                 /\ last'.op \in ManualResetOps]_vars

\* C5: process_episode_task invoked on a COMPLETED Episode changes no Episode
\* and no queue item, starts no work (no worker leaves idle, so no transcribe
\* or summarize call) and schedules nothing (the broker only loses the message).
C5_CompletedNoOp ==
    [][\A m \in DOMAIN broker :
          (/\ m.task = "process_episode_task"
           /\ Taken(m)
           /\ episodes[m.id].status = COMPLETED)
          => (episodes' = episodes /\ digest_queue' = digest_queue /\ workers' = workers)]_vars

\* C5 witness: the task returned at once on a COMPLETED Episode that a user has queued
C5_Witness ==
    /\ last.op = "process_already_completed"
    /\ episodes[last.id].status = COMPLETED
    /\ BagCount(digest_queue, <<1, last.id>>) > 0

\* C6: a no-captions failure leaves the Episode FAILED with the no-captions
\* message and puts no message in the broker.
C6_NoCaptionsNotRetried ==
    [][last'.op = "process_no_captions" =>
          /\ episodes'[last'.id].status = FAILED
          /\ episodes'[last'.id].error_message = NoCaptionsMsg
          /\ episodes'[last'.id].error_message # NULL
          /\ broker' = broker]_vars

\* C6 witness: a no-captions failure has happened
C6_Witness ==
    /\ last.op = "process_no_captions"
    /\ episodes[last.id].status = FAILED
    /\ episodes[last.id].error_message = NoCaptionsMsg

RetriesBounded ==
    /\ \A m \in DOMAIN broker : m.retries <= max_retries
    /\ \A w \in WorkerIds : workers[w].retries <= max_retries

\* C7: a processing job is re-invoked at most max_retries times; the failure of
\* the last re-invocation schedules nothing and leaves the Episode FAILED, and
\* a FAILED Episode with no job scheduled or running stays FAILED until a
\* reprocess or a re-submission.
C7_RetryBudget ==
    [][/\ RetriesBounded'
       /\ (last'.op \in {"process_error", "process_value_error"} /\ last'.arg = max_retries)
             => (broker' = broker /\ episodes'[last'.id].status = FAILED)
       /\ \A e \in EpisodeIds :
             (/\ episodes[e].status = FAILED
              /\ Scheduled(e) = 0
              /\ Running(e) = {}
              /\ episodes'[e].status # FAILED)
             => last'.op \in ManualResetOps]_vars

\* C7 witness: the third re-invocation has failed with a retryable error, and
\* no job for the Episode is left
C7_Witness ==
    /\ last.op = "process_error"
    /\ last.arg = max_retries
    /\ episodes[last.id].status = FAILED
    /\ Scheduled(last.id) = 0
    /\ Running(last.id) = {}

\* C8: no two Episode rows have the same unique_id.
C8_UniqueIdUnique ==
    \A e1, e2 \in EpisodeIds : e1 # e2 => episodes[e1].unique_id # episodes[e2].unique_id

\* C8 witness: submit_url found no Episode, the poller inserted it meanwhile,
\* and the submission's INSERT was refused
C8_Witness ==
    /\ last.op = "submit_integrity_error"
    /\ \E e \in EpisodeIds : episodes[e].source_id = 2

\* C9: a second submission of a URL whose Episode is not COMPLETED creates no
\* second row, and when it carries a user id that user has a queue item for
\* the Episode afterwards.
C9_SecondSubmissionQueued ==
    /\ C8_UniqueIdUnique
    /\ (/\ last.op \in {"submit_queued", "submit_retry_failed", "submit_already_processing"}
        /\ last.arg # 0)
          => BagCount(digest_queue, <<last.arg, last.id>>) > 0

\* C10: no two DigestQueueItems with the same (user_id, episode_id).
C10_QueuePairUnique == \A p \in DOMAIN digest_queue : digest_queue[p] <= 1

\* C11: at most one Subscription row per (user_id, source_id), also when two
\* subscribe requests for the same pair interleave.
C11_SubscriptionPairUnique == \A p \in DOMAIN subscriptions : subscriptions[p] <= 1

\* C12: every accepted URL shape of one video normalizes to the canonical URL
\* and hashes to one unique_id: once the video has been submitted, every
\* shape has the stored Episode's URL and unique_id, and the Episodes created
\* from submissions of the video are a single row with the canonical URL.
C12_ShapesNormalizeAlike ==
    /\ \A e \in EpisodeIds :
          episodes[e].source_id = 0 =>
              /\ episodes[e].url = CanonicalUrl
              /\ \A url \in VideoShapes :
                    /\ normalize_url(url) = episodes[e].url
                    /\ get_url_hash(url) = episodes[e].unique_id
    /\ Cardinality({e \in EpisodeIds : episodes[e].source_id = 0}) <= 1

\* the videos a URL names
ContentOf(url) == {v \in VideoIds : \E i \in 1..Len(url) : url[i] = v}

\* C13: a video registered by the poller and the same video submitted by URL
\* are the same Episode row.
C13_OneRowPerContent ==
    \A e1, e2 \in EpisodeIds :
        (/\ episodes[e1].source_id # 0
         /\ episodes[e2].source_id = 0
         /\ ContentOf(episodes[e1].url) \cap ContentOf(episodes[e2].url) # {})
        => e1 = e2

\* the process_episode_task messages in the broker
ProcessJobs(b) ==
    LET RECURSIVE Sum(_)
        Sum(S) == IF S = {} THEN 0
                  ELSE LET m == CHOOSE m \in S : TRUE IN b[m] + Sum(S \ {m})
    IN  Sum({m \in DOMAIN b : m.task = "process_episode_task"})

\* every entry of the source's feed is an Episode already, as it is once a
\* poll of the source has run to its end
FeedKnown(source_id) ==
    \A i \in 1..Len(Feed(source_id)) : EpisodeByUniqueId(Feed(source_id)[i].unique_id) # 0

C15_FanoutExactlyOne ==
    [][\A w \in WorkerIds :
          (workers[w].pc = "fanout_commit" /\ workers'[w] = Idle)
          => \A u \in workers[w].subs : BagCount(digest_queue', <<u, workers[w].id>>) = 1]_vars

\* C16: send_user_digest_task for a user none of whose queue items has a
\* COMPLETED Episode with a summary changes no queue item, starts no delivery
\* (the execution ends where it found nothing to send) and schedules nothing
\* (the broker only loses the message).
C16_NothingToSend ==
    [][\A m \in DOMAIN broker :
          (/\ m.task = "send_user_digest_task"
           /\ Taken(m)
           /\ \A p \in DOMAIN digest_queue :
                 p[1] = m.id => ~(/\ episodes[p[2]].status = COMPLETED
                                  /\ episodes[p[2]].summary # NULL))
          => /\ digest_queue' = digest_queue
             /\ workers' = workers
             /\ last'.op \in {"digest_no_pending_items", "digest_no_completed_summaries"}]_vars

\* C16 witness: a dispatch has found only items whose Episode is not COMPLETED
C16_Witness ==
    /\ last.op = "digest_no_completed_summaries"
    /\ \E p \in DOMAIN digest_queue : p[1] = last.id /\ episodes[p[2]].status # COMPLETED

\* the execution of send_user_digest_task that ends in this step
Dispatching(w) ==
    /\ workers[w].task = "send_user_digest_task"
    /\ workers[w].pc = "deliver"
    /\ workers'[w] = Idle

C18_AllChannelsFail ==
    [][/\ RetriesBounded'
       /\ (/\ last'.op \in {"digest_delivered", "digest_failed"}
           /\ last'.arg.telegram # "ok"
           /\ last'.arg.email # "ok")
          => /\ digest_queue' = digest_queue
             /\ broker' = IF last'.arg.retries < max_retries
                          THEN BagAdd(broker, [task |-> "send_user_digest_task",
                                               id |-> last'.id, id2 |-> 0,
                                               retries |-> last'.arg.retries + 1,
                                               countdown |-> 300])
                          ELSE broker]_vars

\* C18 witness: the third retry of a dispatch has failed on its channel, and
\* the user's items are still queued
C18_Witness ==
    /\ last.op = "digest_failed"
    /\ last.arg.retries = max_retries
    /\ "failed" \in {last.arg.telegram, last.arg.email}
    /\ \E p \in DOMAIN digest_queue : p[1] = last.id

\* C19: an execution of send_user_digest_task that has its digest attempts
\* every configured channel and no other, whatever the other channel's
\* outcome, and the success of one channel deletes the loaded queue items.
C19_ChannelsIndependent ==
    [][\A w \in WorkerIds :
          (/\ Dispatching(w)
           /\ last'.op \in {"digest_delivered", "digest_failed"}
           /\ last'.arg.digest # <<>>)
          => /\ (last'.arg.telegram # "none") = UserRow(workers[w].id).telegram_chat_id
             /\ (last'.arg.email # "none") = UserRow(workers[w].id).email
             /\ "ok" \in {last'.arg.telegram, last'.arg.email} =>
                   /\ last'.op = "digest_delivered"
                   /\ \A p \in DOMAIN workers[w].items :
                         BagCount(digest_queue', p) =
                             BagCount(digest_queue, p) - workers[w].items[p]]_vars

\* C19 witness: the Telegram attempt failed, the email went out, and the
\* digest counts as delivered
C19_Witness ==
    /\ last.op = "digest_delivered"
    /\ last.arg.telegram = "failed"
    /\ last.arg.email = "ok"

\* C20: a dispatch that delivered leaves in the queue every loaded item whose
\* Episode did not qualify (was not COMPLETED with a summary) when loaded.
C20_IncompleteStayQueued ==
    [][\A w \in WorkerIds :
          (Dispatching(w) /\ last'.op = "digest_delivered")
          => \A p \in DOMAIN workers[w].items \ DOMAIN workers[w].summaries :
                BagCount(digest_queue', p) = BagCount(digest_queue, p)]_vars

\* C27: a processing failure for a malformed URL or a missing audio reference
\* (the ValueError) leaves the Episode FAILED with an error message and
\* schedules no retry.
C27_ValueErrorNotRetried ==
    [][last'.op = "process_value_error" =>
          /\ episodes'[last'.id].status = FAILED
          /\ episodes'[last'.id].error_message # NULL
          /\ broker' = broker]_vars

ImmediateOps == {"immediate_sent", "immediate_failed", "immediate_refused"}

\* C23: in an immediate delivery to a user who has both channels, the email
\* attempt is made whatever the Telegram attempt reports.
C23_ImmediateChannelsIndependent ==
    [][(/\ last'.op \in {"immediate_sent", "immediate_failed"}
        /\ UserRow(last'.arg.user_id).telegram_chat_id
        /\ UserRow(last'.arg.user_id).email)
          => last'.arg.email # "none"]_vars

\* C24: when process_episode_task returns after committing COMPLETED for a
\* one-off Episode submitted with a user id, an immediate delivery to that
\* user is dispatched.
C24_ImmediateOnCompletion ==
    [][(/\ last'.op = "process_fanout"
        /\ episodes'[last'.id].status = COMPLETED
        /\ episodes'[last'.id].source_id = 0)
          => \A u \in Users :
                BagCount(digest_queue', <<u, last'.id>>) > 0 =>
                    \E m \in DOMAIN broker' :
                        /\ m.task = "send_immediate_digest"
                        /\ m.id = u
                        /\ m.id2 = last'.id]_vars

\* C25: a step of send_immediate_digest, whether it sends, fails or refuses,
\* leaves every Episode and every digest queue row as it was.
C25_ImmediateWritesNothing ==
    [][last'.op \in ImmediateOps =>
          /\ episodes' = episodes
          /\ digest_queue' = digest_queue]_vars

\* an immediate delivery was sent to a user whose queue row for that Episode
\* is still there
C25_Witness ==
    /\ last.op = "immediate_sent"
    /\ BagCount(digest_queue, <<last.arg.user_id, last.id>>) > 0

\* C26: no PENDING Episode carries an error message: every reset to PENDING
\* clears it.
C26_PendingHasNoMessage ==
    \A e \in EpisodeIds : episodes[e].status = PENDING => episodes[e].error_message = NULL

\* C28: a processing failure other than missing captions never leaves the
\* Episode showing the no-captions message.
C28_MessageOfLastFailure ==
    [][last'.op \in {"process_error", "process_value_error"} =>
          /\ episodes'[last'.id].status = FAILED
          /\ episodes'[last'.id].error_message # NoCaptionsMsg]_vars

\* C29: a submit_url whose INSERT loses the race for the unique_id leaves the
\* submitting user with a queue row for the existing Episode.
C29_LoserFallsBack ==
    [][(last'.op = "submit_integrity_error" /\ last'.arg # 0) =>
          \E e \in EpisodeIds :
              /\ episodes'[e].unique_id = get_url_hash(UrlPod)
              /\ BagCount(digest_queue', <<last'.arg, e>>) > 0]_vars

C21_OnlyDeliveryRemoves ==
    [][(\E p \in DOMAIN digest_queue : BagCount(digest_queue', p) < BagCount(digest_queue, p))
          => /\ last'.op = "digest_delivered"
             /\ "ok" \in {last'.arg.telegram, last'.arg.email}]_vars

\* a delivery with a channel that succeeded has emptied the queue, and the
\* Episode, reprocessed meanwhile, is not COMPLETED
C21_Witness ==
    /\ last.op = "digest_delivered"
    /\ "ok" \in {last.arg.telegram, last.arg.email}
    /\ DOMAIN digest_queue = {}
    /\ \E e \in EpisodeIds : episodes[e].status # COMPLETED

\* C22: a dispatch that delivers sends no Episode whose queue rows another
\* dispatch has already delivered and removed.
C22_SentOnce ==
    [][\A w \in WorkerIds :
          (Dispatching(w) /\ last'.op = "digest_delivered")
          => \A p \in DOMAIN workers[w].summaries :
                workers[w].items[p] >= workers[w].summaries[p].n]_vars

\* C31: a transcription that fails because the request for the captions
\* failed leaves no no-captions message and is sent again while the retry
\* budget lasts.
C31_FetchFailureRetried ==
    [][(last'.op = "process_no_captions" /\ last'.arg = "network_error") =>
          /\ episodes'[last'.id].error_message # NoCaptionsMsg
          /\ broker' # broker]_vars

\* C32: the step in which an execution of process_episode_task fails with a
\* retryable error changes nothing of the Episode but its status, which is
\* FAILED, and leaves the title the execution found when it loaded the Episode.
C32_RetryableRollsBack ==
    [][\A w \in WorkerIds :
          (/\ workers[w].task = "process_episode_task"
           /\ workers'[w] = Idle
           /\ last'.op = "process_error")
          => /\ episodes' = [episodes EXCEPT ![workers[w].id].status = FAILED]
             /\ episodes'[workers[w].id].title = workers[w].title]_vars

\* C33: a retry of process_episode_task waits 60, 120 and 240 seconds after
\* 0, 1 and 2 retries already made (the delay doubles), and a retry of
\* poll_source_task or send_user_digest_task always waits 300 seconds.
C33_RetryDelays ==
    \A m \in DOMAIN broker :
        m.retries >= 1 =>
            m.countdown = CASE m.task # "process_episode_task" -> 300
                            [] m.retries = 1 -> 60
                            [] m.retries = 2 -> 120
                            [] OTHER -> 240

\* the third retry of a processing job is waiting
C33_Witness ==
    \E m \in DOMAIN broker :
        /\ m.task = "process_episode_task"
        /\ m.retries = max_retries
        /\ m.countdown = 240

\* C34: send_scheduled_digests enqueues one send_user_digest_task for every
\* user whose preferred time has the current hour, whatever its minutes, none
\* for any other user, and changes nothing else.
C34_HourMatch ==
    [][last'.op = "digests_scheduled" =>
          /\ \A u \in Users :
                LET m == Msg("send_user_digest_task", u, 0, 0)
                IN  BagCount(broker', m) - BagCount(broker, m) =
                        IF UserRow(u).preferred_digest_time[1] = last'.arg THEN 1 ELSE 0
          /\ BagSize(broker') = BagSize(broker) + last'.id
          /\ UNCHANGED <<episodes, sources, subscriptions, digest_queue, workers>>]_vars

\* the dispatch of hour 09 has enqueued the digest of the user whose time is 09:30
C34_Witness ==
    /\ last.op = "digests_scheduled"
    /\ last.arg = "09"
    /\ \E m \in DOMAIN broker : m.task = "send_user_digest_task" /\ m.id = 2

\* C35: a step of poll_source_task that creates an Episode creates one, PENDING
\* and of the polled Source, for an entry that was not known, and enqueues
\* one processing job for it; every other step of a poll creates no Episode
\* and enqueues no processing job.
C35_OneEpisodeOneJob ==
    [][\A w \in WorkerIds :
          (workers[w].task = "poll_source_task" /\ workers'[w] # workers[w]) =>
              LET job == Msg("process_episode_task", Len(episodes'), 0, 0)
              IN  IF episodes' # episodes
                  THEN /\ Len(episodes') = Len(episodes) + 1
                       /\ EpisodeByUniqueId(episodes'[Len(episodes')].unique_id) = 0
                       /\ episodes'[Len(episodes')].status = PENDING
                       /\ episodes'[Len(episodes')].source_id = workers[w].id
                       /\ BagCount(broker', job) = BagCount(broker, job) + 1
                  ELSE ProcessJobs(broker') = ProcessJobs(broker)]_vars

\* C36: the fan-out of an Episode adds queue rows only for users who hold a
\* Subscription to the Episode's Source, and none for an Episode without Source.
C36_FanoutToOwnSubscribers ==
    [][last'.op = "process_fanout" =>
          \A u \in Users :
              BagCount(digest_queue', <<u, last'.id>>) > BagCount(digest_queue, <<u, last'.id>>)
              => /\ episodes[last'.id].source_id # 0
                 /\ sources[episodes[last'.id].source_id].exists
                 /\ BagCount(subscriptions, <<u, episodes[last'.id].source_id>>) > 0]_vars

\* an Episode left PROCESSING with no execution under way and no job waiting
Abandoned(e) ==
    /\ episodes[e].status = PROCESSING
    /\ Running(e) = {}
    /\ ProcessMsgs(e) = {}

RequestOps == {"reprocess", "reprocess_refused", "submit_send_now", "submit_retry_failed",
               "submit_queued", "submit_already_processing"}

\* C37: an Episode left PROCESSING by a killed worker is brought back to
\* PENDING, with a processing job, by reprocess_episode and by a submission
\* of its URL.
C37_AbandonedCanBeReset ==
    [][\A e \in EpisodeIds :
          (Abandoned(e) /\ last'.id = e /\ last'.op \in RequestOps)
          => /\ episodes'[e].status = PENDING
             /\ \E m \in DOMAIN broker' : m.task = "process_episode_task" /\ m.id = e]_vars

SubmitOps == {"submit_created", "submit_send_now", "submit_retry_failed", "submit_queued",
              "submit_already_processing"}

\* C38: after a submit_url call that carries a user id, the user has a queue
\* row for the Episode or an immediate delivery to the user is enqueued.
C38_SubmitterKept ==
    [][(last'.op \in SubmitOps /\ last'.arg # 0) =>
          \/ BagCount(digest_queue', <<last'.arg, last'.id>>) > 0
          \/ \E m \in DOMAIN broker' :
                /\ m.task = "send_immediate_digest"
                /\ m.id = last'.arg
                /\ m.id2 = last'.id]_vars

\* C39: once the Episode of a Source is committed COMPLETED, every user
\* subscribed to the Source at that moment eventually has a queue row for it.
C39_FanoutEventually ==
    \A u \in Users :
        (/\ last.op = "process_completed"
         /\ BagCount(subscriptions, <<u, episodes[last.id].source_id>>) > 0)
        ~> (\E e \in EpisodeIds : BagCount(digest_queue, <<u, e>>) > 0)

\* ------------------------------------------------------------ get_episode
get_episode_Unmasked(e) ==
    [id |-> e, title |-> episodes[e].title, status |-> episodes[e].status,
     summary |-> episodes[e].summary, processed_at |-> episodes[e].processed_at]

\* episodes.py lines 153-168: the response carries the stored summary when the
\* status is COMPLETED and none otherwise
get_episode(e) ==
    [id |-> e, title |-> episodes[e].title, status |-> episodes[e].status,
     summary |-> IF episodes[e].status = COMPLETED THEN episodes[e].summary ELSE NULL,
     processed_at |-> episodes[e].processed_at]

\* C40: a COMPLETED Episode has a transcript, a summary and a processed_at,
\* and get_episode returns a summary only for a COMPLETED Episode.
C40_CompletedHasContent ==
    \A e \in EpisodeIds :
        /\ episodes[e].status = COMPLETED =>
              /\ episodes[e].transcript # NULL
              /\ episodes[e].summary # NULL
              /\ episodes[e].processed_at # NULL
        /\ get_episode(e).summary # NULL => episodes[e].status = COMPLETED

\* An Episode processed once and reset keeps its stored summary while the
\* query shows none.
C40_Witness ==
    \E e \in EpisodeIds :
        /\ episodes[e].status \in {PENDING, PROCESSING, FAILED}
        /\ episodes[e].summary # NULL
        /\ get_episode(e).summary = NULL

=============================================================================
